---- MODULE Spec2Model ----
(***************************************************************************)
(* Model of extract_metadata.py: the PaperProcessor pipeline               *)
(* (process_directory, extract_metadata_from_pdf, normalize_metadata,      *)
(* the Ledger processed_files.json, the Store metadata.json and            *)
(* reset_processing_status), driven as main() drives it.                   *)
(*                                                                         *)
(* JSON values are records [k, v]: k is the Python type of the value       *)
(* ("str", "list", "dict", "num", "null") and v its content.  A string is  *)
(* a sequence of tokens: the separators ",", ";", the blank " ", and       *)
(* atoms (non-empty runs of other characters), so that split, replace and  *)
(* strip act on it as they act on the characters.                          *)
(***************************************************************************)
EXTENDS Integers, Sequences, FiniteSets, TLC

\* ------------------------------------------------------------------ bounds
NumFiles == 2      \* PDF files in the directory
MaxRuns == 2       \* runs of process_directory in one history
MaxFaults == 1     \* exceptions, interruptions and I/O failures in one history
MaxTime == 1       \* the clock int(time.time()) takes the values 0..MaxTime
MaxTokens == 3     \* tokens of an authors string given to normalize_metadata
MaxAuthors == 2    \* elements of an authors list given to normalize_metadata

\* ------------------------------------------------------------ JSON values
S(toks) == [k |-> "str", v |-> toks]
L(elems) == [k |-> "list", v |-> elems]
D(fields) == [k |-> "dict", v |-> fields]
Num(tok) == [k |-> "num", v |-> <<tok>>]
Null == [k |-> "null", v |-> <<>>]

Unknown == S(<<"unknown">>)
WS == {" "}

\* str(x) and f"{x}": the text of a value (the repr of a container is one atom)
Str(x) ==
    CASE x.k = "str" -> x.v
      [] x.k = "num" -> x.v
      [] x.k = "null" -> <<"None">>
      [] x.k = "list" -> <<"[...]">>
      [] x.k = "dict" -> <<"{...}">>

\* Python truth value, as `if name` / `if not name` test it
Truthy(x) ==
    CASE x.k = "str" -> x.v # <<>>
      [] x.k = "list" -> x.v # <<>>
      [] x.k = "dict" -> DOMAIN x.v # {}
      [] x.k = "num" -> x.v # <<"0">>
      [] x.k = "null" -> FALSE

\* dict.get(key, default)
Get(d, key, default) == IF key \in DOMAIN d.v THEN d.v[key] ELSE default

RECURSIVE LStrip(_)
LStrip(toks) ==
    IF toks # <<>> /\ Head(toks) \in WS THEN LStrip(Tail(toks)) ELSE toks

RECURSIVE RStrip(_)
RStrip(toks) ==
    IF toks # <<>> /\ toks[Len(toks)] \in WS
    THEN RStrip(SubSeq(toks, 1, Len(toks) - 1)) ELSE toks

\* str.strip()
Strip(toks) == RStrip(LStrip(toks))

\* str.replace(old, new) for one-character old and new
Replace(toks, old, new) ==
    [i \in 1..Len(toks) |-> IF toks[i] = old THEN new ELSE toks[i]]

\* str.split(sep): the pieces between the separators, empty pieces kept
RECURSIVE SplitAcc(_, _, _)
SplitAcc(toks, sep, cur) ==
    IF toks = <<>> THEN <<cur>>
    ELSE IF Head(toks) = sep THEN <<cur>> \o SplitAcc(Tail(toks), sep, <<>>)
    ELSE SplitAcc(Tail(toks), sep, Append(cur, Head(toks)))

Split(toks, sep) == SplitAcc(toks, sep, <<>>)

\* `sep in s`
Contains(toks, sep) == \E i \in 1..Len(toks) : toks[i] = sep

RECURSIVE Concat(_)
Concat(seqs) == IF seqs = <<>> THEN <<>> ELSE Head(seqs) \o Concat(Tail(seqs))

\* ------------------------------------------------- get_default_metadata
RequiredKeys == {"title", "authors", "year", "journal", "doi", "keywords", "abstract"}

\* the default record with keywords defaulting like authors
GetDefaultMetadataKw ==
    D([title |-> Unknown, authors |-> L(<<Unknown>>), year |-> Unknown,
       journal |-> Unknown, doi |-> Unknown, keywords |-> L(<<Unknown>>),
       abstract |-> Unknown])

GetDefaultMetadata ==
    D([title |-> Unknown, authors |-> L(<<Unknown>>), year |-> Unknown,
       journal |-> Unknown, doi |-> Unknown, keywords |-> L(<<>>),
       abstract |-> Unknown])

\* ---------------------------------------------------- normalize_metadata
\* one element of an authors list: the strings it contributes (none or one)
AuthorName(author) ==
    IF author.k = "dict"
    THEN LET n1 == Get(author, "name", S(<<>>))
             n2 == IF Truthy(n1) THEN n1
                   ELSE S(Strip(Str(Get(author, "first_name", S(<<>>))) \o <<" ">>
                                \o Str(Get(author, "last_name", S(<<>>)))))
             n3 == IF Truthy(n2) THEN n2 ELSE Get(author, "full_name", S(<<>>))
         IN  IF Truthy(n3) THEN <<n3>> ELSE <<>>
    ELSE <<S(Str(author))>>

\* a.strip() for every piece of s.replace(';', ',').split(','), empties dropped
SplitList(toks) ==
    LET pieces == Split(Replace(toks, ";", ","), ",")
        stripped == [i \in 1..Len(pieces) |-> Strip(pieces[i])]
    IN  Concat([i \in 1..Len(stripped) |->
                   IF stripped[i] # <<>> THEN <<S(stripped[i])>> ELSE <<>>])

NormalizeAuthors(a) ==
    CASE a.k = "list" ->
           LET names == Concat([i \in 1..Len(a.v) |-> AuthorName(a.v[i])])
           IN  IF names # <<>> THEN L(names) ELSE L(<<Unknown>>)
      [] a.k = "str" ->
           IF Contains(a.v, ",") \/ Contains(a.v, ";")
           THEN L(SplitList(a.v))
           ELSE IF a.v # <<>> THEN L(<<a>>) ELSE L(<<Unknown>>)
      [] OTHER -> L(<<Unknown>>)

NormalizeKeywords(kw) ==
    CASE kw.k = "list" -> L([i \in 1..Len(kw.v) |-> S(Str(kw.v[i]))])
      [] kw.k = "str" ->
           IF Contains(kw.v, ",") \/ Contains(kw.v, ";")
           THEN L(SplitList(kw.v))
           ELSE IF kw.v # <<>> THEN L(<<kw>>) ELSE L(<<>>)
      [] OTHER -> L(<<>>)

\* normalize_metadata(metadata), metadata a dict
NormalizeMetadata(m) ==
    D([key \in DOMAIN m.v |->
          CASE key = "authors" -> NormalizeAuthors(m.v[key])
            [] key = "keywords" -> NormalizeKeywords(m.v[key])
            [] OTHER -> m.v[key]])

\* ------------------------------------------- extract_metadata_from_pdf
MaxRetries == 3
InitialRetryDelay == 2

\* `key in metadata` for a dict, a list and a str (a number or null raises)
KeyIn(key, m) ==
    CASE m.k = "dict" -> key \in DOMAIN m.v
      [] m.k = "list" -> \E i \in 1..Len(m.v) : m.v[i] = S(<<key>>)
      [] m.k = "str" -> \E i \in 1..Len(m.v) : m.v[i] = key
      [] OTHER -> FALSE

\* a fill that sets the seven fields to their defaults, present or not
FillDefaultsOverwrite(m) ==
    IF m.k # "dict" THEN [ok |-> FALSE, val |-> m]
    ELSE [ok |-> TRUE,
          val |-> D([key \in DOMAIN m.v \cup RequiredKeys |->
                       IF key \in RequiredKeys THEN GetDefaultMetadata.v[key]
                       ELSE m.v[key]])]

\* lines 165-168: "Ensure all required fields exist".  ok = FALSE is the
\* TypeError of `key not in metadata` (number, null) or of the item
\* assignment (list, str), which the `except Exception` of line 172 catches.
FillDefaults(m) ==
    IF m.k \notin {"dict", "list", "str"} THEN [ok |-> FALSE, val |-> m]
    ELSE IF \A key \in RequiredKeys : KeyIn(key, m) THEN [ok |-> TRUE, val |-> m]
    ELSE IF m.k = "dict"
         THEN [ok |-> TRUE,
               val |-> D([key \in DOMAIN m.v \cup RequiredKeys |->
                            IF key \in DOMAIN m.v THEN m.v[key]
                            ELSE GetDefaultMetadata.v[key]])]
         ELSE [ok |-> FALSE, val |-> m]

\* completion responses.  t = "raise": generate_content raises;
\* t = "notext": response.text is None; t = "malformed": the cleaned text is
\* not JSON; t = "json": the cleaned text parses to body.
ObjFull ==
    D([title |-> S(<<"Paper">>),
       authors |-> S(<<"Doe", ",", " ", "J.", ";", " ", "Smith">>),
       year |-> Num("2024"), journal |-> S(<<"Nature">>), doi |-> Unknown,
       keywords |-> L(<<>>), abstract |-> S(<<"Text">>)])

ObjPartial ==
    D([title |-> S(<<"Paper">>),
       authors |-> S(<<"Doe", ",", " ", "J.", ";", " ", "Smith">>),
       year |-> Num("2024"), journal |-> S(<<"Nature">>),
       abstract |-> S(<<"Text">>)])

ObjNullAbstract ==
    D([title |-> S(<<"Paper">>), authors |-> L(<<S(<<"Doe">>)>>),
       year |-> Num("2024"), journal |-> S(<<"Nature">>), doi |-> Unknown,
       keywords |-> L(<<>>), abstract |-> Null])

ArrayBody == L(<<ObjFull>>)

JsonBodies == {ObjFull, ObjPartial, ObjNullAbstract, ArrayBody, Num("42")}

Responses ==
    {[t |-> "raise", body |-> Null], [t |-> "notext", body |-> Null],
     [t |-> "malformed", body |-> Null]}
    \cup {[t |-> "json", body |-> b] : b \in JsonBodies}

\* the outcome of the try block of one attempt (lines 130-170):
\* ok = TRUE with the value returned, or ok = FALSE when an exception
\* reaches line 172
TryAttempt(resp) ==
    CASE resp.t = "raise" -> [ok |-> FALSE, val |-> Null]
      [] resp.t = "notext" -> [ok |-> FALSE, val |-> Null]
      [] resp.t = "malformed" -> FillDefaults(GetDefaultMetadata)
      [] resp.t = "json" -> FillDefaults(resp.body)

\* retry_delay *= 2
NextRetryDelaySame(d) == d
NextRetryDelay(d) == d * 2

\* ---------------------------------------------------------- the directory
PdfPool ==
    <<[name |-> "a.pdf", rel |-> "a.pdf", full |-> "papers/a.pdf"],
      [name |-> "b.pdf", rel |-> "sub/b.pdf", full |-> "papers/sub/b.pdf"],
      [name |-> "c.pdf", rel |-> "sub/c.pdf", full |-> "papers/sub/c.pdf"],
      [name |-> "d.pdf", rel |-> "d.pdf", full |-> "papers/d.pdf"]>>

\* list(Path(directory_path).rglob('*.pdf')), in enumeration order
PdfFiles == SubSeq(PdfPool, 1, NumFiles)

PdfPaths == {PdfFiles[i].rel : i \in 1..Len(PdfFiles)}

\* ------------------------------------------------------------------ state
VARIABLES
    ledgerFile,        \* processed_files.json: [st, data], data a set of paths
    storeFile,         \* metadata.json: [st, data], data a sequence of records
    backups,           \* metadata_backup_<t>.json, for every t in 0..MaxTime
    now,               \* int(time.time()) as last read
    pc,                \* position of main / process_directory
    processed_files,   \* process_directory: the Ledger as loaded
    results,           \* process_directory: the Store as loaded, plus appends
    unprocessed_files, \* process_directory: the candidates, in order
    idx,               \* process_directory: index of the current candidate
    extracted_text,    \* extract_metadata_from_pdf: "", "text", or "-" (none yet)
    attempt,           \* extract_metadata_from_pdf: loop variable
    retry_delay,       \* extract_metadata_from_pdf
    metadata,          \* the current candidate's record
    clientLog,         \* completion calls and sleeps made for the current candidate
    runs,              \* runs of process_directory started so far
    faults,            \* interruptions and I/O failures so far
    run,               \* log of the current or latest operation
    prev,              \* log of the operation before it
    arg,               \* the argument of a function called on its own
    ret                \* what that call returned

vars == <<ledgerFile, storeFile, backups, now, pc, processed_files, results,
          unprocessed_files, idx, extracted_text, attempt, retry_delay,
          metadata, clientLog, runs, faults, run, prev, arg, ret>>

callVars == <<arg, ret>>
persisted == <<ledgerFile, storeFile, backups>>
fileVars == <<extracted_text, attempt, retry_delay, metadata, clientLog>>

Absent == [st |-> "absent", data |-> <<>>]
Corrupt == [st |-> "corrupt", data |-> <<>>]
LedgerOf(paths) == [st |-> "ok", data |-> paths]
StoreOf(records) == [st |-> "ok", data |-> records]

\* load_processed_files: a missing or unreadable file is the empty set
LoadProcessedFiles(f) == IF f.st = "ok" THEN f.data ELSE {}

\* load_existing_metadata that starts from nothing
LoadExistingMetadataFresh(f) == <<>>

\* load_existing_metadata: a missing or unreadable file is the empty list
LoadExistingMetadata(f) == IF f.st = "ok" THEN f.data ELSE <<>>

\* save_processed_file: what the Ledger file holds once the write completed
SaveProcessedFile(f, filename) == LedgerOf(LoadProcessedFiles(f) \cup {filename})

\* the filter of lines 239-244 without its test
UnprocessedAll(processed) == PdfFiles

\* lines 239-244 for the enumeration pdf_files
UnprocessedOf(pdf_files, processed) ==
    SelectSeq(pdf_files, LAMBDA f : f.rel \notin processed)

\* lines 239-244: the candidates, in enumeration order
Unprocessed(processed) == UnprocessedOf(PdfFiles, processed)

Rels(cands) == [i \in 1..Len(cands) |-> cands[i].rel]

\* events of clientLog
CallEvent(outcome) == [e |-> "call", r |-> outcome, d |-> 0]
SleepEvent(delay) == [e |-> "sleep", r |-> "", d |-> delay]

NoRun ==
    [kind |-> "none", end |-> "done", at |-> "", cands |-> <<>>, done |-> <<>>,
     failed |-> {}, store0 |-> Absent, ledger0 |-> Absent,
     backups0 |-> [t \in 0..MaxTime |-> Absent],
     snapStore |-> Absent, snapLedger |-> Absent]

\* what prev keeps of a log: the snapshots are those of the latest operation
Past(log) ==
    [log EXCEPT !.backups0 = NoRun.backups0, !.snapStore = Absent,
                !.snapLedger = Absent]

Init ==
    /\ ledgerFile = Absent
    /\ storeFile = Absent
    /\ backups = [t \in 0..MaxTime |-> Absent]
    /\ now = 0
    /\ pc = "idle"
    /\ processed_files = {}
    /\ results = <<>>
    /\ unprocessed_files = <<>>
    /\ idx = 0
    /\ extracted_text = "-"
    /\ attempt = 0
    /\ retry_delay = 0
    /\ metadata = Null
    /\ clientLog = <<>>
    /\ runs = 0
    /\ faults = 0
    /\ run = NoRun
    /\ prev = NoRun
    /\ arg = Null
    /\ ret = Null

\* the variables of one candidate's pipeline, before it starts
ClearFile ==
    /\ extracted_text' = "-"
    /\ attempt' = 0
    /\ retry_delay' = 0
    /\ metadata' = Null
    /\ clientLog' = <<>>

\* process_directory has returned or was interrupted: its locals are gone
ClearRun ==
    /\ pc' = "idle"
    /\ processed_files' = {}
    /\ results' = <<>>
    /\ unprocessed_files' = <<>>
    /\ idx' = 0
    /\ ClearFile

\* main picks a directory and calls process_directory (lines 231-252)
StartRun ==
    /\ pc = "idle"
    /\ runs < MaxRuns
    /\ runs' = runs + 1
    /\ prev' = Past(run)
    /\ LET loaded == LoadProcessedFiles(ledgerFile)
           cands == Unprocessed(loaded)
           log == [NoRun EXCEPT !.kind = "run", !.end = "running",
                                !.cands = Rels(cands),
                                !.store0 = storeFile, !.ledger0 = ledgerFile,
                                !.snapStore = storeFile, !.snapLedger = ledgerFile]
       IN  IF cands = <<>>
           THEN /\ run' = [log EXCEPT !.end = "nothing"]
                /\ ClearRun
           ELSE /\ run' = log
                /\ pc' = "extract"
                /\ processed_files' = loaded
                /\ results' = LoadExistingMetadata(storeFile)
                /\ unprocessed_files' = cands
                /\ idx' = 1
                /\ ClearFile
    /\ UNCHANGED <<persisted, now, faults>>
    /\ UNCHANGED callVars

\* the end of one iteration of the loop of line 255, after the log entry
\* newRun was made: the next candidate, or the return of process_directory
Advance(newRun, newResults) ==
    IF idx < Len(unprocessed_files)
    THEN /\ pc' = "extract"
         /\ idx' = idx + 1
         /\ results' = newResults
         /\ run' = newRun
         /\ ClearFile
         /\ UNCHANGED <<processed_files, unprocessed_files>>
    ELSE /\ run' = [newRun EXCEPT !.end = "done"]
         /\ ClearRun

\* an except clause around the whole loop: the first failure ends the run
SkipFileReturn(newResults) ==
    /\ run' = [run EXCEPT !.failed = @ \cup {unprocessed_files[idx].rel},
                          !.end = "done"]
    /\ ClearRun

\* an except clause that takes the failed candidate again
SkipFileRetry(newResults) ==
    /\ pc' = "extract"
    /\ results' = newResults
    /\ ClearFile
    /\ UNCHANGED <<processed_files, unprocessed_files, idx, run>>

\* the except clause of lines 296-299: log, skip, continue
SkipFile(newResults) ==
    Advance([run EXCEPT !.failed = @ \cup {unprocessed_files[idx].rel}], newResults)

\* extract_text_from_pdf (lines 122-127): "" on any failure, never raises
ExtractText ==
    /\ pc = "extract"
    /\ \E text \in {"", "text"} :
         /\ extracted_text' = text
         /\ IF text = ""
            THEN /\ metadata' = GetDefaultMetadata
                 /\ pc' = "post"
                 /\ UNCHANGED <<attempt, retry_delay>>
            ELSE /\ metadata' = Null
                 /\ pc' = "call"
                 /\ attempt' = 0
                 /\ retry_delay' = InitialRetryDelay
    /\ UNCHANGED <<persisted, now, processed_files, results, unprocessed_files,
                   idx, clientLog, runs, faults, run, prev>>
    /\ UNCHANGED callVars

\* one iteration of the loop of line 129: the completion call, the parse,
\* and the except clause of lines 172-181
CompletionAttempt ==
    /\ pc = "call"
    /\ \E resp \in Responses :
         LET out == TryAttempt(resp)
             called == Append(clientLog,
                              CallEvent(IF resp.t = "raise" THEN "raised"
                                        ELSE "responded"))
         IN
         IF out.ok
         THEN /\ metadata' = out.val
              /\ pc' = "post"
              /\ clientLog' = called
              /\ UNCHANGED <<attempt, retry_delay>>
         ELSE IF attempt < MaxRetries - 1
         THEN /\ clientLog' = Append(called, SleepEvent(retry_delay))
              /\ retry_delay' = NextRetryDelay(retry_delay)
              /\ attempt' = attempt + 1
              /\ UNCHANGED <<metadata, pc>>
         ELSE /\ metadata' = GetDefaultMetadata
              /\ pc' = "post"
              /\ clientLog' = called
              /\ UNCHANGED <<attempt, retry_delay>>
    /\ UNCHANGED <<persisted, now, processed_files, results, unprocessed_files,
                   idx, extracted_text, runs, faults, run, prev>>
    /\ UNCHANGED callVars

\* the values extract_metadata_from_pdf can return once the loop of line 129
\* is at iteration a: the result of an attempt that raises nothing, or, when
\* an attempt raises, what the later iterations return (the default record
\* after the last)
RECURSIVE ReturnsFrom(_)
ReturnsFrom(a) ==
    LET outs == {TryAttempt(resp) : resp \in Responses}
    IN  {o.val : o \in {x \in outs : x.ok}}
        \cup (IF \A o \in outs : o.ok THEN {}
              ELSE IF a < MaxRetries - 1 THEN ReturnsFrom(a + 1)
              ELSE {GetDefaultMetadata})

\* extract_metadata_from_pdf as one step (lines 117-181): every record it can
\* return for the text extracted
ExtractMetadata ==
    /\ pc = "extract"
    /\ \E text \in {"", "text"} :
         \E m \in (IF text = "" THEN {GetDefaultMetadata} ELSE ReturnsFrom(0)) :
            metadata' = m
    /\ pc' = "post"
    /\ UNCHANGED <<persisted, now, processed_files, results, unprocessed_files,
                   idx, extracted_text, attempt, retry_delay, clientLog,
                   runs, faults, run, prev>>
    /\ UNCHANGED callVars

\* lines 271-281: ', '.join(authors) raises on an author that is no string,
\* len(abstract) on a number or null
PrintRaises(m) ==
    \/ \E i \in 1..Len(m.v["authors"].v) : m.v["authors"].v[i].k # "str"
    \/ m.v["abstract"].k \in {"num", "null"}

\* lines 261-263: the three provenance fields
WithProvenance(m, f) ==
    D([key \in DOMAIN m.v \cup {"filename", "relative_path", "full_path"} |->
          CASE key = "filename" -> S(<<f.name>>)
            [] key = "relative_path" -> S(<<f.rel>>)
            [] key = "full_path" -> S(<<f.full>>)
            [] OTHER -> m.v[key]])

\* lines 261-285: provenance, normalize, print, results.append
PostProcess ==
    /\ pc = "post"
    /\ IF metadata.k # "dict"
       THEN SkipFile(results)
       ELSE LET m == NormalizeMetadata(WithProvenance(metadata, unprocessed_files[idx]))
            IN  IF PrintRaises(m)
                THEN SkipFile(results)
                ELSE /\ metadata' = m
                     /\ results' = Append(results, m)
                     /\ pc' = "write_store"
                     /\ UNCHANGED <<processed_files, unprocessed_files, idx,
                                    extracted_text, attempt, retry_delay,
                                    clientLog, run>>
    /\ UNCHANGED <<persisted, now, runs, faults, prev>>
    /\ UNCHANGED callVars

\* lines 288-289 complete: metadata.json holds results
WriteStore ==
    /\ pc = "write_store"
    /\ storeFile' = StoreOf(results)
    /\ pc' = "write_ledger"
    /\ UNCHANGED <<ledgerFile, backups, now, processed_files, results,
                   unprocessed_files, idx, fileVars, runs, faults, run, prev>>
    /\ UNCHANGED callVars

\* lines 288-289 raise (OSError): open fails and the file is untouched, or
\* the dump fails after open(..., 'w') truncated the file
WriteStoreFails ==
    /\ pc = "write_store"
    /\ faults < MaxFaults
    /\ faults' = faults + 1
    /\ \E truncated \in BOOLEAN :
         storeFile' = IF truncated THEN Corrupt ELSE storeFile
    /\ SkipFile(results)
    /\ UNCHANGED <<ledgerFile, backups, now, runs, prev>>
    /\ UNCHANGED callVars

\* line 292 completes: save_processed_file(relative_path)
WriteLedger ==
    /\ pc = "write_ledger"
    /\ LET rel == unprocessed_files[idx].rel
           newLedger == SaveProcessedFile(ledgerFile, rel)
       IN  /\ ledgerFile' = newLedger
           /\ Advance([run EXCEPT !.done = Append(@, rel),
                                  !.snapStore = storeFile,
                                  !.snapLedger = newLedger], results)
    /\ UNCHANGED <<storeFile, backups, now, runs, faults, prev>>
    /\ UNCHANGED callVars

\* line 292 raises (OSError), before or after the file was truncated
WriteLedgerFails ==
    /\ pc = "write_ledger"
    /\ faults < MaxFaults
    /\ faults' = faults + 1
    /\ \E truncated \in BOOLEAN :
         ledgerFile' = IF truncated THEN Corrupt ELSE ledgerFile
    /\ SkipFile(results)
    /\ UNCHANGED <<storeFile, backups, now, runs, prev>>
    /\ UNCHANGED callVars

\* KeyboardInterrupt (lines 353-355): no except clause of process_directory
\* catches it.  at = "pre": before the Store write began; "store_write":
\* inside it, the file truncated; "gap": between the Store write and the
\* Ledger write; "ledger_write": inside the Ledger write.
Interrupt ==
    /\ pc # "idle"
    /\ faults < MaxFaults
    /\ faults' = faults + 1
    /\ \E at \in {"pre", "store_write", "gap", "ledger_write"} :
         /\ at = "pre" => pc \in {"extract", "call", "post", "write_store"}
         /\ at = "store_write" => pc = "write_store"
         /\ at \in {"gap", "ledger_write"} => pc = "write_ledger"
         /\ storeFile' = IF at = "store_write" THEN Corrupt ELSE storeFile
         /\ ledgerFile' = IF at = "ledger_write" THEN Corrupt ELSE ledgerFile
         /\ run' = [run EXCEPT !.end = "interrupted", !.at = at]
    /\ ClearRun
    /\ UNCHANGED <<backups, now, runs, prev>>
    /\ UNCHANGED callVars

ResetLog(end) ==
    [NoRun EXCEPT !.kind = "reset", !.end = end, !.store0 = storeFile,
                  !.ledger0 = ledgerFile, !.backups0 = backups]

\* reset_processing_status deleting metadata.json instead of renaming it
ResetNoBackup ==
    /\ pc = "idle"
    /\ ledgerFile.st # "absent"
    /\ ledgerFile' = Absent
    /\ storeFile' = Absent
    /\ \E t \in now..MaxTime : now' = t
    /\ prev' = Past(run)
    /\ run' = ResetLog("done")
    /\ UNCHANGED <<backups, pc, processed_files, results, unprocessed_files,
                   idx, fileVars, runs, faults>>
    /\ UNCHANGED callVars

\* main, lines 332-336, and reset_processing_status run to completion:
\* os.remove, then os.rename to metadata_backup_<int(time.time())>.json
\* (replacing a file of that name, as rename does on POSIX); the clock has
\* not gone back since it was last read
Reset ==
    /\ pc = "idle"
    /\ ledgerFile.st # "absent"
    /\ ledgerFile' = Absent
    /\ \E t \in now..MaxTime :
         /\ now' = t
         /\ IF storeFile.st # "absent"
            THEN /\ backups' = [backups EXCEPT ![t] = storeFile]
                 /\ storeFile' = Absent
            ELSE UNCHANGED <<backups, storeFile>>
    /\ prev' = Past(run)
    /\ run' = ResetLog("done")
    /\ UNCHANGED <<pc, processed_files, results, unprocessed_files, idx,
                   fileVars, runs, faults>>
    /\ UNCHANGED callVars

\* runs of the pipeline with interruptions and failures of the file system,
\* extract_metadata_from_pdf taken as one step
Next ==
    \/ StartRun
    \/ ExtractMetadata
    \/ PostProcess
    \/ WriteStore
    \/ WriteStoreFails
    \/ WriteLedger
    \/ WriteLedgerFails
    \/ Interrupt

Spec == Init /\ [][Next]_vars

\* runs of the pipeline and completed resets between them, without
\* interruption and without failure of the file system
NextReset ==
    \/ StartRun
    \/ ExtractMetadata
    \/ PostProcess
    \/ WriteStore
    \/ WriteLedger
    \/ Reset

SpecReset == Init /\ [][NextReset]_vars

\* runs without failures of the file system and without interruption,
\* extract_metadata_from_pdf taken attempt by attempt
NextClient ==
    \/ StartRun
    \/ ExtractText
    \/ CompletionAttempt
    \/ PostProcess
    \/ WriteStore
    \/ WriteLedger

SpecClient == Init /\ [][NextClient]_vars

\* runs in which every call of the text extractor, of the completion service
\* and of the file system returns or raises: no interruption, and no step
\* of a run waits for ever.  The write that raises is the Store write; a
\* Ledger write that raises is caught by the same except clause (line 296).
NextReturns ==
    \/ StartRun
    \/ ExtractText
    \/ CompletionAttempt
    \/ PostProcess
    \/ WriteStore
    \/ WriteStoreFails
    \/ WriteLedger

\* PostProcess is enabled exactly when pc = "post" and every PostProcess
\* step leaves "post", so weak fairness of PostProcess is that the run is
\* not at "post" for ever
SpecReturns ==
    /\ Init
    /\ [][NextReturns]_vars
    /\ WF_vars(ExtractText)
    /\ WF_vars(CompletionAttempt)
    /\ []<>(pc # "post")
    /\ WF_vars(WriteStore \/ WriteStoreFails)
    /\ WF_vars(WriteLedger)

\* ------------------------------------------------ functions on their own
\* normalize_metadata and the parse-and-fill of extract_metadata_from_pdf,
\* each applied once to an argument drawn from a bounded set

\* the strings of at most n tokens
TokenStrings(n) ==
    UNION {[1..k -> {",", ";", " ", "Doe"}] : k \in 0..n}

\* "Doe, J.; Smith, A."
DoeSmith == <<"Doe", ",", " ", "J.", ";", " ", "Smith", ",", " ", "A.">>

AuthorKeys == {"name", "first_name", "last_name", "full_name"}

\* author objects: any of the four name fields, each null, empty, blank or
\* a name
AuthorDicts ==
    {D(f) : f \in UNION {[ks -> {Null, S(<<>>), S(<<" ">>), S(<<"Ann">>), S(<<"Lee">>)}]
                             : ks \in SUBSET AuthorKeys}}

\* the elements of the longer authors lists
AuthorElems ==
    {S(<<"Doe">>), Num("7"),
     D([name |-> S(<<"Ann">>)]),
     D([first_name |-> S(<<"Jane">>), last_name |-> S(<<"Smith">>)]),
     D([full_name |-> S(<<>>)]),
     D([name |-> S(<<>>), full_name |-> S(<<"Jay">>)])}

AuthorsValues ==
    {S(t) : t \in TokenStrings(MaxTokens) \cup {DoeSmith}}
    \cup {L(<<d>>) : d \in AuthorDicts}
    \cup {L(l) : l \in UNION {[1..k -> AuthorElems] : k \in 0..MaxAuthors}}
    \cup {Null, Num("7"), D(<<>>)}

\* the records given to normalize_metadata
NormalizeArgs == {D([title |-> S(<<"Paper">>), authors |-> a]) : a \in AuthorsValues}

\* the JSON objects a response parses to: any of the seven fields and of one
\* more, each null or a string
FillArgs ==
    {D(f) : f \in UNION {[ks -> {Null, S(<<"x">>)}]
                             : ks \in SUBSET (RequiredKeys \cup {"pages"})}}

InitFunctions ==
    /\ ledgerFile = Absent
    /\ storeFile = Absent
    /\ backups = [t \in 0..MaxTime |-> Absent]
    /\ now = 0
    /\ processed_files = {}
    /\ results = <<>>
    /\ unprocessed_files = <<>>
    /\ idx = 0
    /\ extracted_text = "-"
    /\ attempt = 0
    /\ retry_delay = 0
    /\ metadata = Null
    /\ clientLog = <<>>
    /\ runs = 0
    /\ faults = 0
    /\ run = NoRun
    /\ prev = NoRun
    /\ ret = Null
    /\ \/ pc = "normalize_metadata" /\ arg \in NormalizeArgs
       \/ pc = "parse_fill" /\ arg \in FillArgs

\* normalized = self.normalize_metadata(arg)
CallNormalizeMetadata ==
    /\ pc = "normalize_metadata"
    /\ ret' = NormalizeMetadata(arg)
    /\ pc' = "returned"
    /\ UNCHANGED <<persisted, now, processed_files, results, unprocessed_files,
                   idx, fileVars, runs, faults, run, prev, arg>>

\* lines 155-170 for a response whose cleaned text parses to arg
CallParseFill ==
    /\ pc = "parse_fill"
    /\ ret' = TryAttempt([t |-> "json", body |-> arg])
    /\ pc' = "filled"
    /\ UNCHANGED <<persisted, now, processed_files, results, unprocessed_files,
                   idx, fileVars, runs, faults, run, prev, arg>>

NextFunctions ==
    \/ CallNormalizeMetadata
    \/ CallParseFill

SpecFunctions == InitFunctions /\ [][NextFunctions]_vars

\* ------------------------------------------------------------ observations
\* the paths a Ledger file holds and the records a Store file holds (none
\* when the file is missing or is not JSON)
PathsIn(file) == IF file.st = "ok" THEN file.data ELSE {}
RecordsIn(file) == IF file.st = "ok" THEN file.data ELSE <<>>
LedgerView == PathsIn(ledgerFile)
StoreView == RecordsIn(storeFile)

RelOf(record) == record.v["relative_path"].v[1]
PathsOf(records) == [i \in 1..Len(records) |-> RelOf(records[i])]
Count(path, records) ==
    Cardinality({i \in 1..Len(records) : RelOf(records[i]) = path})
Range(seq) == {seq[i] : i \in 1..Len(seq)}
IsPrefix(s, t) == Len(s) <= Len(t) /\ s = SubSeq(t, 1, Len(s))

\* ------------------------------------------------------------------ claims

\* C1 (as claimed): every path in the persisted Ledger has a record with that
\* relative path in the persisted Store, in every reachable state, also
\* after an interruption or a per-file exception.
C1_LedgerPathsHaveRecords ==
    \A p \in LedgerView : \E i \in 1..Len(StoreView) : RelOf(StoreView[i]) = p

\* C2 (as claimed): after an interruption that landed between two steps of
\* process_directory, the persisted Store and Ledger are exactly those
\* established by the last completed file of the run (those of the start of
\* the run when no file was completed).
C2_InterruptKeepsLastCompleted ==
    (pc = "idle" /\ run.kind = "run" /\ run.end = "interrupted"
        /\ run.at \in {"pre", "gap"})
    => (storeFile = run.snapStore /\ ledgerFile = run.snapLedger)

\* C3 (as claimed): a first run over M candidates, without per-file failure,
\* is stopped between two steps after N were completed; the next run, which
\* completes without per-file failure, has exactly the M-N remaining
\* candidates and leaves exactly M records in the Store, in enumeration order.
C3_Resumability ==
    (pc = "idle" /\ run.kind = "run" /\ run.end = "done" /\ run.failed = {}
        /\ prev.kind = "run" /\ prev.end = "interrupted" /\ prev.failed = {}
        /\ prev.at \in {"pre", "gap"}
        /\ prev.store0 = Absent /\ prev.ledger0 = Absent)
    => /\ Len(run.cands) = Len(prev.cands) - Len(prev.done)
       /\ PathsOf(StoreView) = Rels(PdfFiles)

\* C4 (as claimed): a run that follows a run over the same directory which
\* returned and left a non-empty Ledger processes no file.
C4_NonEmptyLedgerIdempotent ==
    (run.kind = "run" /\ prev.kind = "run" /\ prev.end = "done"
        /\ PathsIn(run.ledger0) # {})
    => (run.cands = <<>> /\ run.end = "nothing")

\* C4 (amended): a run that finds every enumerated path in the Ledger
\* processes no file: it has no candidate, stops at once, and leaves the
\* Store and the Ledger as they were.
C4_FullLedgerIdempotent ==
    (run.kind = "run" /\ PdfPaths \subseteq PathsIn(run.ledger0))
    => /\ run.cands = <<>>
       /\ run.end = "nothing"
       /\ pc = "idle"
       /\ storeFile = run.store0
       /\ ledgerFile = run.ledger0

C4_Witness ==
    /\ run.kind = "run" /\ run.end = "nothing"
    /\ PdfPaths \subseteq PathsIn(run.ledger0)
    /\ prev.kind = "run" /\ prev.end = "done" /\ Len(prev.done) = NumFiles

\* C5: a candidate whose pipeline raised is not in the Ledger; a run that
\* returns has taken every candidate to completion or to a logged failure,
\* also those after a failed one; and the candidates that failed in a run
\* are candidates of the next run.
C5_FailureIsolation ==
    /\ run.kind = "run" => run.failed \cap LedgerView = {}
    /\ (run.kind = "run" /\ run.end = "done")
       => Range(run.cands) = Range(run.done) \cup run.failed
    /\ (run.kind = "run" /\ prev.kind = "run")
       => prev.failed \subseteq Range(run.cands)

C5_Witness ==
    /\ prev.kind = "run" /\ prev.end = "done"
    /\ prev.failed = {PdfFiles[1].rel}
    /\ PdfFiles[2].rel \in Range(prev.done)
    /\ run.kind = "run" /\ PdfFiles[1].rel \in Range(run.cands)

\* the completion calls of clientLog, and its sleeps
CallsOf(log) == SelectSeq(log, LAMBDA ev : ev.e = "call")
SleepsOf(log) == SelectSeq(log, LAMBDA ev : ev.e = "sleep")
AllRaised(log) == \A i \in 1..Len(log) : log[i].e = "call" => log[i].r = "raised"

\* C6: never more than 3 completion calls for one file; and when
\* extract_metadata_from_pdf returns after every call raised, it made exactly
\* 3 calls, slept 2 between the first and the second and 4 between the second
\* and the third, did not sleep after the third, and returns the default
\* record.
C6_RetryBound ==
    /\ Len(CallsOf(clientLog)) <= 3
    /\ (pc = "post" /\ clientLog # <<>> /\ AllRaised(clientLog))
       => /\ clientLog = <<CallEvent("raised"), SleepEvent(2), CallEvent("raised"),
                           SleepEvent(4), CallEvent("raised")>>
          /\ metadata = GetDefaultMetadata

C6_Witness ==
    /\ pc = "post" /\ extracted_text = "text"
    /\ Len(CallsOf(clientLog)) = 3 /\ AllRaised(clientLog)

\* C7 (as claimed): a completion call that returned a response is the last
\* event of its file: no sleep and no further call follows it, whatever the
\* response holds.
C7_ResponseNotRetried ==
    \A i \in 1..Len(clientLog) :
        (clientLog[i].e = "call" /\ clientLog[i].r = "responded")
        => i = Len(clientLog)

\* the record of the current candidate in results, once appended
Appended == results[Len(results)]

\* C8: for a file whose extracted text is empty no completion call is made,
\* extract_metadata_from_pdf returns the default record, and the record
\* appended to the Store and written to it has the seven default values,
\* plus the three provenance fields of the file.
C8_DefaultRecord ==
    extracted_text = ""
    => /\ clientLog = <<>>
       /\ pc = "post" => metadata = GetDefaultMetadata
       /\ pc \in {"write_store", "write_ledger"}
          => /\ DOMAIN Appended.v
                  = RequiredKeys \cup {"filename", "relative_path", "full_path"}
             /\ Appended.v["title"] = S(<<"unknown">>)
             /\ Appended.v["authors"] = L(<<S(<<"unknown">>)>>)
             /\ Appended.v["year"] = S(<<"unknown">>)
             /\ Appended.v["journal"] = S(<<"unknown">>)
             /\ Appended.v["doi"] = S(<<"unknown">>)
             /\ Appended.v["keywords"] = L(<<>>)
             /\ Appended.v["abstract"] = S(<<"unknown">>)
             /\ Appended.v["filename"] = S(<<unprocessed_files[idx].name>>)
             /\ Appended.v["relative_path"] = S(<<unprocessed_files[idx].rel>>)
             /\ Appended.v["full_path"] = S(<<unprocessed_files[idx].full>>)
       /\ pc = "write_ledger" => storeFile = StoreOf(results)

C8_Witness ==
    /\ extracted_text = "" /\ pc = "write_ledger"
    /\ storeFile.st = "ok" /\ Len(storeFile.data) = NumFiles

\* the Store holds one record per Ledger path and none for any other path
Agree(store, ledger) ==
    /\ Range(PathsOf(RecordsIn(store))) = PathsIn(ledger)
    /\ \A p \in PathsIn(ledger) : Count(p, RecordsIn(store)) = 1

\* the candidate a run interrupted in the gap was at
Crashed(log) == log.cands[Len(log.done) + 1]

CrashThenRerun ==
    /\ pc = "idle"
    /\ prev.kind = "run" /\ prev.end = "interrupted" /\ prev.at = "gap"
    /\ prev.failed = {} /\ Agree(prev.store0, prev.ledger0)
    /\ run.kind = "run" /\ run.end = "done" /\ run.failed = {}

\* C9: a run, started with Store and Ledger in agreement, is interrupted
\* between the Store write and the Ledger write of one file; the next run
\* completes every candidate.  Then that file has exactly two Store records,
\* every other path exactly one, and the Store as it was at the crash is a
\* prefix of the Store.
C9_CrashBound ==
    CrashThenRerun
    => /\ Count(Crashed(prev), StoreView) = 2
       /\ \A p \in PdfPaths \ {Crashed(prev)} : Count(p, StoreView) = 1
       /\ run.store0.st = "ok"
       /\ IsPrefix(run.store0.data, StoreView)

C9_Witness == CrashThenRerun /\ Len(prev.done) = 1

BackupTimes == {t \in 0..MaxTime : backups[t] # Absent}

\* C10 (as claimed): after a completed reset the Ledger file and the Store
\* file do not exist and exactly one backup file exists that holds the Store
\* contents from before the reset.
C10_ExactlyOneBackup ==
    (run.kind = "reset" /\ run.end = "done")
    => /\ ledgerFile = Absent
       /\ storeFile = Absent
       /\ Cardinality({t \in BackupTimes : backups[t] = run.store0}) = 1

\* C10 (amended): after a completed reset the Ledger file and the Store file
\* do not exist, and the reset wrote exactly one backup file, the one named
\* by its timestamp, holding the Store contents from before the reset; every
\* backup file under another name is as it was.
C10_ResetBacksUp ==
    (run.kind = "reset" /\ run.end = "done")
    => /\ ledgerFile = Absent
       /\ storeFile = Absent
       /\ run.store0 # Absent
       /\ backups = [run.backups0 EXCEPT ![now] = run.store0]

C10_Witness ==
    /\ run.kind = "reset" /\ run.end = "done"
    /\ Cardinality(BackupTimes) = 2

C12_DoeSmithExample ==
    (pc = "returned" /\ arg.v["authors"] = S(DoeSmith))
    => ret.v["authors"] = L(<<S(<<"Doe", ",", " ", "J.">>),
                              S(<<"Smith", ",", " ", "A.">>)>>)

\* a string of separators and blanks only
OnlySeparators(a) ==
    a.k = "str" /\ \A i \in 1..Len(a.v) : a.v[i] \in {",", ";", " "}

\* C13 (as claimed): whatever the authors field given to normalize_metadata
\* is, the authors field it returns is a non-empty list, and it is
\* ["unknown"] for a string made only of separators and blanks and for a
\* value that is neither a list nor a string.
C13_AuthorsNonEmpty ==
    pc = "returned"
    => /\ ret.v["authors"].k = "list"
       /\ ret.v["authors"].v # <<>>
       /\ (OnlySeparators(arg.v["authors"]) \/ arg.v["authors"].k \notin {"str", "list"})
          => ret.v["authors"] = L(<<Unknown>>)

\* C14 (as claimed): a step that changes the Store file keeps the records it
\* held as an unchanged prefix of those it holds afterwards; and when a file
\* is completed the Store file holds that file's record.
C14_StoreAppendOnly ==
    /\ [][storeFile' # storeFile
           => IsPrefix(RecordsIn(storeFile), RecordsIn(storeFile'))]_vars
    /\ [][(pc = "write_ledger" /\ run'.done # run.done)
           => \E i \in 1..Len(RecordsIn(storeFile')) :
                 RelOf(RecordsIn(storeFile')[i]) = unprocessed_files[idx].rel]_vars

\* C15 (as claimed): when a run that started with Store and Ledger in
\* agreement returns, the relative paths of the records in the Store file
\* are exactly the paths in the Ledger file, also when candidates failed at
\* the Store write or at the Ledger write.
C15_FailedLeavesNoRecord ==
    (pc = "idle" /\ run.kind = "run" /\ run.end = "done"
        /\ Agree(run.store0, run.ledger0))
    => Range(PathsOf(StoreView)) = LedgerView

\* C16 (as claimed): a step of a run that changes the Ledger file drops no
\* path the file held and adds none but the path of the current candidate;
\* and the Ledger write of a completed file leaves exactly the paths the
\* file held before and that file's path.
C16_LedgerUnion ==
    /\ [][ledgerFile' # ledgerFile
           => /\ PathsIn(ledgerFile) \subseteq PathsIn(ledgerFile')
              /\ PathsIn(ledgerFile')
                    \subseteq PathsIn(ledgerFile) \cup {unprocessed_files[idx].rel}]_vars
    /\ [][(pc = "write_ledger" /\ run'.done # run.done)
           => PathsIn(ledgerFile')
                = PathsIn(ledgerFile) \cup {unprocessed_files[idx].rel}]_vars

\* the default value of each of the seven target fields
C17_Default(key) ==
    CASE key = "authors" -> L(<<S(<<"unknown">>)>>)
      [] key = "keywords" -> L(<<>>)
      [] OTHER -> S(<<"unknown">>)

\* C17: for a response that parses to a JSON object, the parse-and-fill of
\* extract_metadata_from_pdf returns an object whose fields are those of the
\* parsed object and the seven target fields; every field of the parsed
\* object has the value it had, and every target field absent from it has
\* its default value.
C17_MissingFieldFill ==
    pc = "filled"
    => /\ ret.ok
       /\ ret.val.k = "dict"
       /\ DOMAIN ret.val.v = DOMAIN arg.v \cup RequiredKeys
       /\ \A key \in DOMAIN arg.v : ret.val.v[key] = arg.v[key]
       /\ \A key \in RequiredKeys \ DOMAIN arg.v : ret.val.v[key] = C17_Default(key)

C17_Witness ==
    /\ pc = "filled"
    /\ DOMAIN arg.v = {"title", "year", "pages"}
    /\ arg.v["title"] = Null
    /\ ret.val.v["title"] = Null
    /\ ret.val.v["pages"] = S(<<"x">>)
    /\ ret.val.v["authors"] = L(<<S(<<"unknown">>)>>)

\* the text of a field of an author object, empty when the field is absent
\* or null
C18_Field(d, key) ==
    IF key \in DOMAIN d.v /\ d.v[key].k = "str" THEN d.v[key].v ELSE <<>>

\* a text without its leading and trailing blanks
C18_Trim(t) ==
    LET solid == {i \in 1..Len(t) : t[i] # " "}
    IN  IF solid = {} THEN <<>>
        ELSE SubSeq(t, CHOOSE i \in solid : \A j \in solid : i <= j,
                       CHOOSE i \in solid : \A j \in solid : i >= j)

\* the names one element of an authors list stands for: none or one
C18_Name(x) ==
    IF x.k = "dict"
    THEN LET name == C18_Field(x, "name")
             joined == C18_Trim(C18_Field(x, "first_name") \o <<" ">>
                                \o C18_Field(x, "last_name"))
             full == C18_Field(x, "full_name")
         IN  IF name # <<>> THEN <<S(name)>>
             ELSE IF joined # <<>> THEN <<S(joined)>>
             ELSE IF full # <<>> THEN <<S(full)>>
             ELSE <<>>
    ELSE <<S(x.v)>>

RECURSIVE C18_Names(_)
C18_Names(elems) ==
    IF elems = <<>> THEN <<>> ELSE C18_Name(Head(elems)) \o C18_Names(Tail(elems))

\* C18 (as claimed): for an authors list, normalize_metadata returns, in the order of the
\* elements, for every author object the first non-empty of its name, its
\* first_name and last_name joined by a blank and trimmed, and its full_name
\* (nothing when all are empty), and for every other element its text; and
\* ["unknown"] when that leaves nothing.
C18_AuthorObjects ==
    (pc = "returned" /\ arg.v["authors"].k = "list")
    => ret.v["authors"]
         = (IF C18_Names(arg.v["authors"].v) = <<>> THEN L(<<S(<<"unknown">>)>>)
            ELSE L(C18_Names(arg.v["authors"].v)))

\* C19: when every call returns or raises, a run of process_directory that
\* started returns; when it has returned, every candidate of the run was
\* recorded in the Ledger or skipped after a failure; and
\* extract_metadata_from_pdf, once in its retry loop, leaves it by a return
\* statement, with a value.
C19_Termination ==
    /\ (pc # "idle") ~> (pc = "idle")
    /\ (pc = "call") ~> (pc = "post" /\ metadata # Null)
    /\ [](pc = "idle" /\ run.kind = "run"
            => /\ run.end \in {"done", "nothing"}
               /\ Range(run.cands) = Range(run.done) \cup run.failed)

C19_Witness ==
    /\ pc = "idle" /\ run.kind = "run" /\ run.end = "done"
    /\ Len(run.done) = 1 /\ Cardinality(run.failed) = 1
    /\ faults = 1

\* C20 (as claimed): a backup file that exists is never changed or removed
\* by a later step, also not by a reset that obtains the timestamp that
\* names it.
C20_BackupsKept ==
    [][\A t \in 0..MaxTime : backups[t] # Absent => backups'[t] = backups[t]]_vars

====
